---- MODULE Spec2Model ----
(***************************************************************************)
(* Model of index.js: the HTTP handler exports.ask and its helper          *)
(* getDriveFileContent.  One behaviour is one invocation of exports.ask.   *)
(* Every await of the source is a suspension point: the action that        *)
(* resumes the handler runs the code up to the next await (or to the       *)
(* response), the outcome of the awaited outbound call being chosen by     *)
(* the environment.  The per-file extractions started by the map of line   *)
(* 79 run concurrently, one small state machine per file.                  *)
(***************************************************************************)
EXTENDS Integers, Sequences, FiniteSets, TLC

(***************************************************************************)
(* Bounds of the model.                                                    *)
(***************************************************************************)
MaxFiles == 2
MaxChunks == 1
MaxRows == 3

(***************************************************************************)
(* JavaScript values.  Strings are TLA+ strings; the value undefined is    *)
(* the reserved string below, which no field, cell or content takes.       *)
(***************************************************************************)
Undefined == "<undefined>"

\* JavaScript truthiness of a string-or-undefined value (!v is ~Truthy(v)).
Truthy(v) == v # Undefined /\ v # ""

\* Interpolation `${v}` in a template literal.
Str(v) == IF v = Undefined THEN "undefined" ELSE v

\* String.prototype.startsWith.
StartsWith(s, p) == Len(s) >= Len(p) /\ SubSeq(s, 1, Len(p)) = p

\* Array.prototype.join.
RECURSIVE Join(_, _)
Join(arr, sep) ==
    IF Len(arr) = 0 THEN ""
    ELSE IF Len(arr) = 1 THEN arr[1]
    ELSE arr[1] \o sep \o Join(Tail(arr), sep)

\* Array.prototype.map with `- ${row[2]}` (line 125).
RECURSIVE MapBullet(_)
MapBullet(rows) ==
    IF Len(rows) = 0 THEN <<>>
    ELSE <<"- " \o Str(rows[1][3])>> \o MapBullet(Tail(rows))

(***************************************************************************)
(* Requests: req.body after destructuring (line 51).                       *)
(***************************************************************************)
ReqTypes == {Undefined, "gemini", "report", "token", "other"}
Prompts == {Undefined, "", "How do I invoice?"}
AccessTokens == {Undefined, "", "ya29.tok"}
Codes == {Undefined, "", "4/code"}
Requests == [type : ReqTypes, prompt : Prompts, accessToken : AccessTokens, code : Codes]

(***************************************************************************)
(* Drive files.  A file of the listing is {id, name, mimeType}; `chunks`   *)
(* is what the drive would stream for it (not visible to the handler).     *)
(***************************************************************************)
DocMime == "application/vnd.google-apps.document"
MimeTypes == {DocMime, "text/plain", "application/pdf"}
FileId(i) == "f" \o ToString(i)

\* The content the drive holds for the file at position i: n chunks.
ChunksOf(i, n) == [k \in 1..n |-> FileId(i) \o "#" \o ToString(k) \o ";"]

Listings ==
    UNION {[1..n -> [mimeType : MimeTypes, nchunks : 0..MaxChunks]] : n \in 1..MaxFiles}

FileAt(l, i) ==
    [id |-> FileId(i), name |-> FileId(i) \o ".txt",
     mimeType |-> l[i].mimeType, chunks |-> ChunksOf(i, l[i].nchunks)]

\* The whole content of a file, as one string.
ContentOf(f) == Join(f.chunks, "")

(***************************************************************************)
(* Fixed texts of the source.                                              *)
(***************************************************************************)
Delimiter == "\n\n---\n\n"
GenericError == "Something went wrong on the backend."
GeminiRequired == "A prompt and access token are required."
TokenRequired == "Access token required."
CodeRequired == "A code is required."
BadType == "A valid request type was not provided."
EmptySheetReport == "The log sheet is empty or only contains a header. No report to generate."
NoQuestionsReport == "No questions have been asked in the last 7 days."
ReportIntro == "As an operations analyst for a Virtual Assistant company, review the following list of questions asked by our VAs over the last week. Generate a brief, professional report for management. The report should identify 2-3 key themes or common areas of confusion, point out potential gaps in our training or documentation, and suggest specific, actionable improvements.\n\nQuestions Asked This Week:\n"

\* Line 87.
EnhancedPrompt(context, prompt) ==
    "Based on the following context, please answer the user's question. If the context does not contain the answer, say so.\n\nCONTEXT:\n---\n"
    \o context \o "\n---\n\nQUESTION: " \o Str(prompt)

\* Line 132.
ReportPrompt(questionsText) == ReportIntro \o questionsText

VARIABLES
    pc,         \* where the handler is suspended: "idle", an awaited call, or "done"
    req,        \* the destructured request body
    files,      \* filesResponse.data.files of line 73 (<<>> before it is known)
    ext,        \* one record per file: the state of its getDriveFileContent call
    context,    \* the variable context of line 64
    answer,     \* the variable answer of line 91
    calls,      \* the outbound calls the handler itself issued, in order
    sheet,      \* response.data of line 111: [hasValues, values]
    failed,     \* the steps of the handler's own outbound calls that failed
    responses,  \* the responses sent on res, in order
    errlog      \* console.error of the handler (lines 102 and 150)

vars == <<pc, req, files, ext, context, answer, calls, sheet, failed, responses, errlog>>

(***************************************************************************)
(* getDriveFileContent (lines 8-47).  The record of one call:              *)
(*   pc      "export" / "get": awaiting that drive call;                   *)
(*           "exportStream" / "getStream": inside the Promise of line 15   *)
(*           / 28, listening to the stream; "settled": the promise the     *)
(*           async function returned is settled;                           *)
(*   buf     the variable buf;  pos: chunks the stream has emitted;        *)
(*   calls   the drive calls this invocation issued, in order;             *)
(*   result  the state of the returned promise;                            *)
(*   at      the source line that settled it (0 while pending);            *)
(*   export, get, stream   what the drive did: the outcome of the export   *)
(*           call, of the fallback download call, and of the stream that   *)
(*           the last resolved call returned.                              *)
(***************************************************************************)
Pending == [state |-> "pending", value |-> ""]
Fulfilled(v) == [state |-> "fulfilled", value |-> v]
Rejected(e) == [state |-> "rejected", value |-> e]

\* Line 11.
Supported(mimeType) == mimeType = DocMime \/ StartsWith(mimeType, "text/")

\* Line 12.
ExportMimeType(mimeType) == IF mimeType = DocMime THEN "text/plain" ELSE mimeType

ExportCall(f) == [api |-> "drive.files.export", fileId |-> f.id, arg |-> ExportMimeType(f.mimeType)]
GetCall(f) == [api |-> "drive.files.get", fileId |-> f.id, arg |-> "media"]

Settle(e, r, line) ==
    [e EXCEPT !.pc = "settled", !.buf = "", !.pos = 0, !.result = r, !.at = line]

\* Lines 9-14 and 43-46: the synchronous part of the call, up to the first await.
StartExtraction(f) ==
    IF Supported(f.mimeType)
    THEN [pc |-> "export", buf |-> "", pos |-> 0, calls |-> <<ExportCall(f)>>,
          result |-> Pending, at |-> 0,
          export |-> "pending", get |-> "none", stream |-> "none"]
    ELSE [pc |-> "settled", buf |-> "", pos |-> 0, calls |-> <<>>,
          result |-> Fulfilled(""), at |-> 45,
          export |-> "none", get |-> "none", stream |-> "none"]

\* Lines 14-15 and 24-27: the export call settles.
OnExportSettled(e, f, ok) ==
    IF ok THEN [e EXCEPT !.pc = "exportStream", !.buf = "",
                         !.export = "resolved", !.stream = "open"]
    ELSE [e EXCEPT !.pc = "get", !.calls = Append(@, GetCall(f)),
                   !.export = "rejected", !.get = "pending"]

\* Lines 27-28 and 37-39: the fallback download settles.
OnGetSettled(e, ok) ==
    IF ok THEN [e EXCEPT !.pc = "getStream", !.buf = "",
                         !.get = "resolved", !.stream = "open"]
    ELSE Settle([e EXCEPT !.get = "rejected"], Fulfilled(""), 39)

\* Lines 17 and 30: a 'data' event.
OnData(e, chunk) == [e EXCEPT !.buf = @ \o chunk, !.pos = @ + 1]

\* Lines 18-21 and 31-34: the 'end' event.
OnEnd(e) ==
    Settle([e EXCEPT !.stream = "ended"], Fulfilled(e.buf),
           IF e.pc = "exportStream" THEN 20 ELSE 33)

\* Lines 22 and 35: an 'error' event.  The promise of line 15 (28) is returned,
\* not awaited, so its rejection is outside the try blocks of lines 13 and 26.
OnStreamError(e, err) ==
    Settle([e EXCEPT !.stream = "errored"], Rejected(err),
           IF e.pc = "exportStream" THEN 22 ELSE 35)

\* Line 80: .catch(e => '') on the promise of one file.
CaughtContent(e) == IF e.result.state = "rejected" THEN "" ELSE e.result.value

\* Lines 82-83.
AllContents(es) == [i \in DOMAIN es |-> CaughtContent(es[i])]

\* Line 83 without the filter.
BuildContextUnfiltered(es) == Join(AllContents(es), Delimiter)

BuildContext(es) == Join(SelectSeq(AllContents(es), Truthy), Delimiter)

\* Line 82 resuming as soon as one extraction has settled (Promise.race).
AnySettled(es) == \E i \in DOMAIN es : es[i].result.state # "pending"

\* Line 82: Promise.all of promises that never reject resumes when all are settled.
AllSettled(es) == \A i \in DOMAIN es : es[i].result.state # "pending"

(***************************************************************************)
(* The environment: what the outbound calls can answer.                    *)
(***************************************************************************)
ErrMsg(api) == api \o ": request failed (upstream detail)"
Answers == {"Send it from the Billing tab."}
Emails == {Undefined, "va@example.com"}
NewTokens == {"ya29.new"}

\* new Date().toISOString() of line 97 at the instant Now.
NowISO == "1970-01-12T13:46:40.000Z"

FolderQuery == "name='PeachTreeFiles' and mimeType='application/vnd.google-apps.folder' and trashed=false"
FolderId == "folder-1"
ChildQuery(folderId) == "'" \o folderId \o "' in parents and trashed=false"

Init ==
    /\ pc = "idle"
    /\ req = [type |-> Undefined, prompt |-> Undefined, accessToken |-> Undefined, code |-> Undefined]
    /\ files = <<>>
    /\ ext = <<>>
    /\ context = ""
    /\ answer = ""
    /\ calls = <<>>
    /\ sheet = [hasValues |-> FALSE, values |-> <<>>]
    /\ failed = {}
    /\ responses = <<>>
    /\ errlog = <<>>

\* res.status(s).send(b), the handler returning with it.
Send(s, b) ==
    /\ responses' = Append(responses, [status |-> s, body |-> b])
    /\ pc' = "done"

\* Line 151 with the caught error's message sent to the caller.
ErrorBodyLeaks(msg) == [error |-> msg]

\* Line 151: the body of the catch-all response.
ErrorBody(msg) == [error |-> GenericError]

\* Lines 149-152 with the response of line 151 forgotten.
CatchAllSilent(msg) ==
    /\ errlog' = Append(errlog, "An error occurred: " \o msg)
    /\ pc' = "done"
    /\ UNCHANGED responses

\* Lines 149-152: the catch of the handler.
CatchAll(msg) ==
    /\ errlog' = Append(errlog, "An error occurred: " \o msg)
    /\ Send(500, ErrorBody(msg))

\* The awaited step `step` throws into the try block of line 53.
Throws(step) ==
    /\ failed' = failed \cup {step}
    /\ CatchAll(ErrMsg(step))

Issue(call, next) ==
    /\ calls' = Append(calls, call)
    /\ pc' = next

\* Lines 87-89: build the prompt and invoke the model.
InvokeModel(ctx) ==
    Issue([api |-> "model.generateContent", arg |-> EnhancedPrompt(ctx, req.prompt)], "generate")

\* Line 60 with the access-token test forgotten.
GeminiInvalidPromptOnly(prompt, accessToken) == ~Truthy(prompt)

\* Line 60.
GeminiInvalid(prompt, accessToken) == ~Truthy(prompt) \/ ~Truthy(accessToken)

\* Lines 51-66, 107-111, 140-143, 146-147: the handler up to its first await.
Ask(r) ==
    /\ pc = "idle"
    /\ req' = r
    /\ CASE r.type = "gemini" ->
              IF GeminiInvalid(r.prompt, r.accessToken)
              THEN Send(400, [error |-> GeminiRequired]) /\ UNCHANGED calls
              ELSE Issue([api |-> "drive.files.list", arg |-> FolderQuery], "folderList")
                   /\ UNCHANGED responses
         [] r.type = "report" ->
              IF ~Truthy(r.accessToken)
              THEN Send(400, [error |-> TokenRequired]) /\ UNCHANGED calls
              ELSE Issue([api |-> "sheets.values.get", arg |-> "Sheet1!A:C"], "sheetGet")
                   /\ UNCHANGED responses
         [] r.type = "token" ->
              IF ~Truthy(r.code)
              THEN Send(400, [error |-> CodeRequired]) /\ UNCHANGED calls
              ELSE Issue([api |-> "oauth2.getToken", arg |-> r.code], "getToken")
                   /\ UNCHANGED responses
         [] OTHER -> Send(400, [error |-> BadType]) /\ UNCHANGED calls
    /\ UNCHANGED <<files, ext, context, answer, sheet, failed, errlog>>

\* Lines 66-73 (and 87-89 when there is no folder): the folder lookup settles.
FolderListSettles ==
    /\ pc = "folderList"
    /\ \E outcome \in {"rejected", "absent", "empty", "found"} :
         CASE outcome = "rejected" ->
                Throws("drive.files.list#folder") /\ UNCHANGED calls
           [] outcome = "found" ->
                Issue([api |-> "drive.files.list", arg |-> ChildQuery(FolderId)], "childList")
                /\ UNCHANGED <<failed, responses, errlog>>
           [] OTHER -> InvokeModel(context) /\ UNCHANGED <<failed, responses, errlog>>
    /\ UNCHANGED <<req, files, ext, context, answer, sheet>>

\* Lines 73-82 (and 87-89 when there are no children): the listing settles.
ChildListSettles ==
    /\ pc = "childList"
    /\ \/ /\ Throws("drive.files.list#children")
          /\ UNCHANGED <<calls, files, ext>>
       \/ /\ InvokeModel(context)      \* files absent or empty
          /\ UNCHANGED <<failed, responses, errlog, files, ext>>
       \/ \E l \in Listings :
            /\ files' = [i \in DOMAIN l |-> FileAt(l, i)]
            /\ ext' = [i \in DOMAIN l |-> StartExtraction(FileAt(l, i))]
            /\ pc' = "extracting"
            /\ UNCHANGED <<calls, failed, responses, errlog>>
    /\ UNCHANGED <<req, context, answer, sheet>>

ExtStep(i, e) ==
    /\ ext' = [ext EXCEPT ![i] = e]
    /\ UNCHANGED <<pc, req, files, context, answer, calls, sheet, failed, responses, errlog>>

ExportSettles(i) ==
    /\ ext[i].pc = "export"
    /\ \E ok \in BOOLEAN : ExtStep(i, OnExportSettled(ext[i], files[i], ok))

GetSettles(i) ==
    /\ ext[i].pc = "get"
    /\ \E ok \in BOOLEAN : ExtStep(i, OnGetSettled(ext[i], ok))

StreamData(i) ==
    /\ ext[i].pc \in {"exportStream", "getStream"}
    /\ ext[i].pos < Len(files[i].chunks)
    /\ ExtStep(i, OnData(ext[i], files[i].chunks[ext[i].pos + 1]))

StreamEnd(i) ==
    /\ ext[i].pc \in {"exportStream", "getStream"}
    /\ ext[i].pos = Len(files[i].chunks)
    /\ ExtStep(i, OnEnd(ext[i]))

StreamError(i) ==
    /\ ext[i].pc \in {"exportStream", "getStream"}
    /\ ExtStep(i, OnStreamError(ext[i], ErrMsg("stream")))

\* Lines 82-89: Promise.all resolves, the context is built, the model invoked.
PromiseAllResolves ==
    /\ pc = "extracting"
    /\ AllSettled(ext)
    /\ context' = BuildContext(ext)
    /\ InvokeModel(context')
    /\ UNCHANGED <<req, files, ext, answer, sheet, failed, responses, errlog>>

\* Lines 89-94: the model invocation settles: generateContent rejects, or
\* text() throws, or the answer is there.
GenerateSettles ==
    /\ pc = "generate"
    /\ \/ \E step \in {"model.generateContent", "response.text"} :
            /\ Throws(step)
            /\ UNCHANGED <<calls, answer>>
       \/ \E a \in Answers :
            /\ answer' = a
            /\ Issue([api |-> "oauth2.userinfo.get", arg |-> req.accessToken], "userinfo")
            /\ UNCHANGED <<failed, responses, errlog>>
    /\ UNCHANGED <<req, files, ext, context, sheet>>

\* Lines 93-103 without the try block: the failure reaches the catch of line 149.
LogFailedThrows(step) ==
    /\ failed' = failed \cup {step}
    /\ CatchAll(ErrMsg(step))

\* Lines 101-105: a step of the logging try block throws; the catch of line
\* 101 reports it and the handler goes on to the response of line 105.
LogFailed(step) ==
    /\ failed' = failed \cup {step}
    /\ errlog' = Append(errlog, "Failed to log question to Google Sheet: " \o ErrMsg(step))
    /\ Send(200, [response |-> answer])

\* Line 95-97.
LogEntry(email) == <<NowISO, IF Truthy(email) THEN email ELSE "unknown", req.prompt>>

\* Lines 94-98 and 101-105: the identity lookup settles.
UserinfoSettles ==
    /\ pc = "userinfo"
    /\ \/ /\ LogFailed("oauth2.userinfo.get")
          /\ UNCHANGED calls
       \/ \E email \in Emails :
            /\ Issue([api |-> "sheets.values.append", arg |-> LogEntry(email)], "append")
            /\ UNCHANGED <<failed, responses, errlog>>
    /\ UNCHANGED <<req, files, ext, context, answer, sheet>>

\* Lines 98-105: the append settles.
AppendSettles ==
    /\ pc = "append"
    /\ \/ Send(200, [response |-> answer]) /\ UNCHANGED <<failed, errlog>>
       \/ LogFailed("sheets.values.append")
    /\ UNCHANGED <<req, files, ext, context, answer, calls, sheet>>

(***************************************************************************)
(* The report flow (lines 107-138).                                        *)
(***************************************************************************)

\* Date.now() of line 121, in milliseconds since the epoch.
Now == 1000000000

\* Line 121: 7 * 24 * 60 * 60 * 1000.
SevenDaysMs == 7 * 24 * 60 * 60 * 1000

\* new Date(cell) of line 123 on the cells of the model: the time value of a
\* date string, an invalid date for undefined and for any other text.
DateParse(cell) ==
    CASE cell = "1970-01-05T13:46:39.999Z" -> [valid |-> TRUE, ms |-> 395199999]
      [] cell = "1970-01-05T13:46:40.000Z" -> [valid |-> TRUE, ms |-> 395200000]
      [] cell = "1970-01-05T13:46:40.001Z" -> [valid |-> TRUE, ms |-> 395200001]
      [] cell = "1970-01-12T01:00:00.000Z" -> [valid |-> TRUE, ms |-> 954000000]
      [] cell = NowISO -> [valid |-> TRUE, ms |-> Now]
      [] OTHER -> [valid |-> FALSE, ms |-> 0]

\* Line 124 with >= for >.
DateAfterOrEqual(a, b) == a.valid /\ b.valid /\ a.ms >= b.ms

\* The operator > of line 124 on two dates: false when either is invalid.
DateAfter(a, b) == a.valid /\ b.valid /\ a.ms > b.ms

\* Lines 121-124: the filter predicate.
IsRecent(row) ==
    DateAfter(DateParse(row[1]), [valid |-> TRUE, ms |-> Now - SevenDaysMs])

\* Lines 122-125: slice(1), filter, map.
RecentQuestions(rows) == MapBullet(SelectSeq(Tail(rows), IsRecent))

\* Line 117 with the header row not counted.
NothingLoggedNoHeader(sh) == ~sh.hasValues \/ Len(sh.values) = 0

\* Line 117.
NothingLogged(sh) == ~sh.hasValues \/ Len(sh.values) <= 1

TimestampCells ==
    {"Timestamp", "1970-01-05T13:46:39.999Z", "1970-01-05T13:46:40.000Z",
     "1970-01-05T13:46:40.001Z"}
QuestionCells == {Undefined, "Who approves refunds?"}
RowSet == {<<t, "va@example.com", q>> : t \in TimestampCells, q \in QuestionCells}
Sheets ==
    {[hasValues |-> FALSE, values |-> <<>>]} \cup
    {[hasValues |-> TRUE, values |-> v] : v \in UNION {[1..n -> RowSet] : n \in 0..MaxRows}}
Reports == {"Theme: invoicing."}

\* Lines 111-134: the sheet read settles.
SheetGetSettles ==
    /\ pc = "sheetGet"
    /\ \/ /\ Throws("sheets.values.get")
          /\ UNCHANGED <<calls, sheet>>
       \/ \E sh \in Sheets :
            /\ sheet' = sh
            /\ IF NothingLogged(sh)
               THEN Send(200, [report |-> EmptySheetReport]) /\ UNCHANGED calls
               ELSE IF Len(RecentQuestions(sh.values)) = 0
               THEN Send(200, [report |-> NoQuestionsReport]) /\ UNCHANGED calls
               ELSE Issue([api |-> "model.generateContent",
                           arg |-> ReportPrompt(Join(RecentQuestions(sh.values), "\n"))],
                          "reportGenerate")
                    /\ UNCHANGED responses
            /\ UNCHANGED <<failed, errlog>>
    /\ UNCHANGED <<req, files, ext, context, answer>>

\* Lines 134-138: the model invocation of the report settles.
ReportGenerateSettles ==
    /\ pc = "reportGenerate"
    /\ \/ \E step \in {"model.generateContent", "response.text"} :
            Throws(step)
       \/ \E reportText \in Reports :
            Send(200, [report |-> reportText]) /\ UNCHANGED <<failed, errlog>>
    /\ UNCHANGED <<req, files, ext, context, answer, calls, sheet>>

\* Lines 143-144: the code exchange settles.
GetTokenSettles ==
    /\ pc = "getToken"
    /\ \/ Throws("oauth2.getToken")
       \/ \E t \in NewTokens : Send(200, [accessToken |-> t]) /\ UNCHANGED <<failed, errlog>>
    /\ UNCHANGED <<req, files, ext, context, answer, calls, sheet>>

Extraction ==
    \E i \in DOMAIN ext :
        \/ ExportSettles(i)
        \/ GetSettles(i)
        \/ StreamData(i)
        \/ StreamEnd(i)
        \/ StreamError(i)

Next ==
    \/ \E r \in Requests : Ask(r)
    \/ FolderListSettles
    \/ ChildListSettles
    \/ Extraction
    \/ PromiseAllResolves
    \/ GenerateSettles
    \/ UserinfoSettles
    \/ AppendSettles
    \/ SheetGetSettles
    \/ ReportGenerateSettles
    \/ GetTokenSettles

Spec == Init /\ [][Next]_vars

\* Every outbound call and every content stream eventually completes or fails,
\* and the event loop runs the continuation.
FairSpec == Spec /\ WF_vars(Next)

(***************************************************************************)
(* Properties.                                                             *)
(***************************************************************************)
Responded(status, body) == responses = <<[status |-> status, body |-> body]>>
ModelCalls == {k \in DOMAIN calls : calls[k].api = "model.generateContent"}
NoOutboundCall == calls = <<>> /\ ext = <<>>

\* t occurs in s.
Contains(s, t) ==
    \E k \in 0..(Len(s) - Len(t)) : SubSeq(s, k + 1, k + Len(t)) = t

\* The request is one the claim C1 says is refused.
C1_Refused(r) ==
    \/ r.type = "gemini" /\ (r.prompt \in {Undefined, ""} \/ r.accessToken \in {Undefined, ""})
    \/ r.type = "report" /\ r.accessToken = Undefined
    \/ r.type = "token" /\ r.code = Undefined
    \/ r.type \notin {"gemini", "report", "token"}

\* C1: a gemini request without a non-empty prompt and access token, a report
\* request without an access token, a token request without a code, and a
\* request whose type is absent or unknown, are answered 400 with an error
\* body, and no outbound call is made for them.
C1_InvalidRequestIs400 ==
    (pc # "idle" /\ C1_Refused(req)) =>
        /\ pc = "done"
        /\ Len(responses) = 1
        /\ responses[1].status = 400
        /\ DOMAIN responses[1].body = {"error"}
        /\ NoOutboundCall

C1_Witness ==
    /\ pc = "done"
    /\ req.type = "gemini" /\ Truthy(req.prompt) /\ req.accessToken = Undefined
    /\ Responded(400, [error |-> GeminiRequired])

\* What is left of the extraction of file f: the events its call can still see.
C2_FileRank(e, f) ==
    CASE e.pc = "export" -> Len(f.chunks) + 3
      [] e.pc = "get" -> Len(f.chunks) + 2
      [] e.pc \in {"exportStream", "getStream"} -> Len(f.chunks) - e.pos + 1
      [] OTHER -> 0

RECURSIVE C2_ExtRank(_)
C2_ExtRank(n) == IF n = 0 THEN 0 ELSE C2_FileRank(ext[n], files[n]) + C2_ExtRank(n - 1)

\* A bound on the steps the invocation can still take.
C2_Rank ==
    LET budget == MaxFiles * (MaxChunks + 3)
    IN  CASE pc = "idle" -> budget + 8
          [] pc = "folderList" -> budget + 7
          [] pc = "childList" -> budget + 6
          [] pc = "extracting" -> 5 + C2_ExtRank(Len(ext))
          [] pc = "generate" -> 4
          [] pc \in {"userinfo", "sheetGet"} -> 3
          [] pc \in {"append", "reportGenerate", "getToken"} -> 2
          [] OTHER -> 0

C2_OneResponseAtMost ==
    /\ Len(responses) <= 1
    /\ (pc = "done") <=> (Len(responses) = 1)
    /\ \A k \in DOMAIN responses :
          /\ responses[k].status \in {200, 400, 500}
          /\ Cardinality(DOMAIN responses[k].body) = 1

\* C2: an invocation of exports.ask sends exactly one response, for every
\* request and every outcome of the outbound calls: never more than one, its
\* status 200, 400 or 500 and its payload a JSON object, the handler having
\* returned exactly when it has sent it; and never zero: until the response
\* is sent the handler always has a call or a stream to wait for, and every
\* step brings the response closer, so that it is sent once every call and
\* stream has completed or failed.
C2_ExactlyOneResponse ==
    /\ [](C2_OneResponseAtMost /\ (pc # "done" => ENABLED Next))
    /\ [][C2_Rank' < C2_Rank]_vars

\* C2, the progress part stated directly: under the fairness of FairSpec an
\* invocation leads to its response.
C2_EventuallyResponds == (pc # "idle") ~> (Len(responses) = 1)

C2_Witness ==
    /\ req.type = "gemini"
    /\ \E i \in DOMAIN ext : ext[i].at = 35
    /\ "response.text" \in failed
    /\ Len(responses) = 1 /\ responses[1].status = 500

C3_NotBestEffort ==
    {"drive.files.list#folder", "drive.files.list#children", "model.generateContent",
     "response.text", "sheets.values.get", "oauth2.getToken"}

\* C3: when the folder lookup, the child listing, the model invocation, the
\* sheet read or the code exchange fails, the response is 500 with the body
\* { error: "Something went wrong on the backend." } and nothing else.
C3_UpstreamFailureIs500 ==
    (failed \cap C3_NotBestEffort # {}) =>
        Responded(500, [error |-> "Something went wrong on the backend."])

C3_Witness ==
    /\ failed = {"drive.files.list#children"}
    /\ Len(responses) = 1
    /\ Len(errlog) = 1 /\ Contains(errlog[1], "upstream detail")

\* The text the extraction of file i produced: the file's content when the
\* export or the fallback download streamed to its end, nothing otherwise.
ExtractedOk(i) == ext[i].at \in {20, 33}
ExtractedText(i) == IF ExtractedOk(i) THEN ContentOf(files[i]) ELSE ""

\* The non-empty texts of files 1..n in listing order, delimiter between them.
RECURSIVE C4_Joined(_)
C4_Joined(n) ==
    IF n = 0 THEN ""
    ELSE LET before == C4_Joined(n - 1)
             t == ExtractedText(n)
         IN  IF t = "" THEN before
             ELSE IF before = "" THEN t
             ELSE before \o "\n\n---\n\n" \o t

\* The texts of the files whose extraction produced one, empty or not.
RECURSIVE C4_JoinedAll(_)
C4_JoinedAll(n) ==
    IF n = 0 THEN <<>>
    ELSE IF ExtractedOk(n) THEN Append(C4_JoinedAll(n - 1), ExtractedText(n))
    ELSE C4_JoinedAll(n - 1)

GeminiModelCalled == req.type = "gemini" /\ ModelCalls # {}

\* C4: the context handed to the model is the NON-EMPTY extracted
\* texts in listing order joined by the delimiter, whatever order the
\* extractions completed in; a file that yields no text (unsupported type,
\* failed extraction, empty content) adds neither text nor delimiter; the
\* context is empty when there is no folder or no child.
C4_ContextInListingOrder ==
    GeminiModelCalled =>
        /\ context = C4_Joined(Len(files))
        /\ calls[Len(calls)].api = "model.generateContent"
              => calls[Len(calls)].arg = EnhancedPrompt(C4_Joined(Len(files)), req.prompt)
        /\ \A i \in DOMAIN files : \A k \in DOMAIN files[i].chunks :
              files[i].mimeType = "application/pdf" => ~Contains(context, files[i].chunks[k])
        /\ files = <<>> => context = ""

C4_Witness ==
    /\ GeminiModelCalled
    /\ Len(files) = 2
    /\ ext[1].at = 33 /\ ext[2].at = 20
    /\ context = "f1#1;\n\n---\n\nf2#1;"

\* C4, read literally: the context is the extracted texts, empty ones
\* included, joined by the delimiter.
C4_Original ==
    GeminiModelCalled => context = Join(C4_JoinedAll(Len(files)), "\n\n---\n\n")

\* C5: the model is invoked only once every extraction has settled; a failed
\* extraction contributes nothing and every successful one contributes its
\* text; the response is still 200 with the model's answer; when every
\* extraction fails the context is empty and the response still 200.
C5_ExtractionFailuresIsolated ==
    LET failedExt == {i \in DOMAIN ext : ext[i].at \in {22, 35, 39}}
    IN  GeminiModelCalled =>
          /\ \A i \in DOMAIN ext : ext[i].result.state # "pending"
          /\ \A i \in DOMAIN ext : ExtractedOk(i) => Contains(context, ContentOf(files[i]))
          /\ \A i \in failedExt : \A k \in DOMAIN files[i].chunks :
                ~Contains(context, files[i].chunks[k])
          /\ (failedExt # {} /\ failedExt = DOMAIN ext) => context = ""
          /\ (failedExt # {} /\ pc = "done" /\ failed \cap C3_NotBestEffort = {})
                => Responded(200, [response |-> answer]) /\ answer \in Answers

C5_Witness ==
    /\ pc = "done"
    /\ Len(files) = 2
    /\ ext[1].at = 22 /\ ext[2].at = 20
    /\ context = "f2#1;"
    /\ Responded(200, [response |-> answer])

C5_WitnessAllFail ==
    /\ pc = "done"
    /\ Len(files) = 2
    /\ ext[1].at = 39 /\ ext[2].at = 35
    /\ context = ""
    /\ Responded(200, [response |-> answer])

\* C6: once the model has answered, the response is 200 { response: answer }
\* whether the identity lookup or the append fails or both succeed.
C6_LoggingFailureHarmless ==
    LET answered == req.type = "gemini" /\ failed \cap C3_NotBestEffort = {}
                    /\ \E k \in DOMAIN calls : calls[k].api = "oauth2.userinfo.get"
    IN  /\ (answered /\ pc = "done") =>
              Responded(200, [response |-> answer]) /\ answer \in Answers
        /\ (failed \cap {"oauth2.userinfo.get", "sheets.values.append"} # {}) =>
              answered /\ pc = "done"

C6_Witness ==
    /\ failed = {"sheets.values.append"}
    /\ Responded(200, [response |-> answer])
    /\ Len(errlog) = 1

\* The sheet was read: the report flow is past line 111.
SheetRead ==
    /\ req.type = "report"
    /\ pc \in {"reportGenerate", "done"}
    /\ Truthy(req.accessToken)
    /\ "sheets.values.get" \notin failed

\* Now is 1970-01-12T13:46:40.000Z, so the window opens at
\* 1970-01-05T13:46:40.000Z: of the cells of the model only this one is
\* strictly after it.
C7_InWindow(cell) == cell = "1970-01-05T13:46:40.001Z"

\* One bullet per in-window row among rows k.., in row order.
RECURSIVE C7_Bullets(_, _)
C7_Bullets(rows, k) ==
    IF k > Len(rows) THEN ""
    ELSE LET rest == C7_Bullets(rows, k + 1)
             here == IF C7_InWindow(rows[k][1])
                     THEN "- " \o (IF rows[k][3] = Undefined THEN "undefined" ELSE rows[k][3])
                     ELSE ""
         IN  IF here = "" THEN rest
             ELSE IF rest = "" THEN here
             ELSE here \o "\n" \o rest

C7_OneCallWith(bullets) ==
    /\ Cardinality(ModelCalls) = 1
    /\ \A k \in ModelCalls : calls[k].arg = ReportIntro \o bullets

\* C7: when a row AFTER THE FIRST (header) row is in the window,
\* exactly one model call is made, whose prompt holds one bullet per in-window
\* row after the first, in row order, and none for a row that is older,
\* exactly 7 days old or unparseable.
C7_ReportPromptBullets ==
    (SheetRead /\ \E k \in 2..Len(sheet.values) : C7_InWindow(sheet.values[k][1])) =>
        C7_OneCallWith(C7_Bullets(sheet.values, 2))

C7_Witness ==
    /\ SheetRead
    /\ Len(sheet.values) = 3
    /\ C7_InWindow(sheet.values[2][1])
    /\ sheet.values[3][1] = "1970-01-05T13:46:40.000Z"
    /\ sheet.values[2][3] = "Who approves refunds?"
    /\ C7_OneCallWith("- Who approves refunds?")

\* C7, read literally: when any row of the sheet, the first included, is in
\* the window, one model call is made with one bullet per in-window row.
C7_Original ==
    (SheetRead /\ \E k \in 1..Len(sheet.values) : C7_InWindow(sheet.values[k][1])) =>
        C7_OneCallWith(C7_Bullets(sheet.values, 1))

\* C8: with the sheet read, absent rows or a lone header row give 200 with
\* the 'log sheet is empty' message, data rows all outside the window give
\* 200 with 'No questions have been asked in the last 7 days.', and in both
\* cases no model call is made.
C8_NothingToReport ==
    SheetRead =>
        /\ (~sheet.hasValues \/ Len(sheet.values) <= 1) =>
              /\ Responded(200, [report |-> "The log sheet is empty or only contains a header. No report to generate."])
              /\ ModelCalls = {}
        /\ (/\ sheet.hasValues /\ Len(sheet.values) >= 2
            /\ \A k \in 2..Len(sheet.values) : ~C7_InWindow(sheet.values[k][1])) =>
              /\ Responded(200, [report |-> "No questions have been asked in the last 7 days."])
              /\ ModelCalls = {}

C8_Witness ==
    /\ SheetRead
    /\ Len(sheet.values) = 3
    /\ sheet.values[2][1] = "1970-01-05T13:46:40.000Z"
    /\ sheet.values[3][1] = "Timestamp"
    /\ Responded(200, [report |-> NoQuestionsReport])

C8_WitnessHeaderOnly ==
    /\ SheetRead
    /\ Len(sheet.values) = 1
    /\ Responded(200, [report |-> EmptySheetReport])

\* C9: getDriveFileContent never rejects: whatever the export, the fallback
\* download and the stream do, its promise settles with a string.
C9_NeverRejects ==
    \A i \in DOMAIN ext : ext[i].result.state # "rejected"

\* C10: no call for an unsupported type, the result being ''; otherwise the
\* export first; exactly one download of the same file after a failed export
\* and none after a successful one; the result of a download is its content
\* if it succeeds and '' if it fails.
C10_CallOrder ==
    \A i \in DOMAIN ext :
        LET e == ext[i]
            f == files[i]
            supported == f.mimeType = DocMime \/ f.mimeType = "text/plain"
            downloadOk == e.get = "resolved" /\ e.stream = "ended"
        IN  /\ ~supported => e.calls = <<>> /\ e.result = Fulfilled("")
            /\ supported =>
                  /\ Len(e.calls) \in {1, 2}
                  /\ e.calls[1].api = "drive.files.export" /\ e.calls[1].fileId = f.id
            /\ e.export = "rejected" =>
                  /\ Len(e.calls) = 2
                  /\ e.calls[2].api = "drive.files.get" /\ e.calls[2].fileId = f.id
            /\ e.export # "rejected" => Len(e.calls) <= 1
            /\ (e.pc = "settled" /\ Len(e.calls) = 2) =>
                  e.result = Fulfilled(IF downloadOk THEN ContentOf(f) ELSE "")

\* The part of C10 about the order of the calls, and its results when no
\* stream emits 'error'.
CallOrderBarringStreamErrors ==
    \A i \in DOMAIN ext :
        LET e == ext[i]
            f == files[i]
        IN  /\ ~Supported(f.mimeType) => e.calls = <<>> /\ e.result = Fulfilled("")
            /\ Supported(f.mimeType) =>
                  /\ Len(e.calls) \in {1, 2}
                  /\ e.calls[1].api = "drive.files.export" /\ e.calls[1].fileId = f.id
            /\ e.export = "rejected" <=> Len(e.calls) = 2
            /\ Len(e.calls) = 2 => e.calls[2].api = "drive.files.get" /\ e.calls[2].fileId = f.id
            /\ (e.pc = "settled" /\ Len(e.calls) = 2 /\ e.stream # "errored") =>
                  e.result = Fulfilled(IF e.get = "resolved" THEN ContentOf(f) ELSE "")

====
